---- MODULE Spec2Model ----
(***************************************************************************)
(* Model of serial::Serial (src/serial.h): one channel object, the file    *)
(* descriptor table of its process, and the device behind the port name.   *)
(* The device's answers to open / tcgetattr / tcsetattr / read / write are  *)
(* inputs of the actions.                                                   *)
(***************************************************************************)
EXTENDS Integers, Sequences, FiniteSets, TLC

\* ---------------------------------------------------------------- bounds
\* highest descriptor number of the process (open fails with EMFILE above it)
MaxFd == 3
\* largest len passed to Read / Write (len > 0, the precondition of read)
MaxLen == 1
\* Init attempts one Read call may make inside its reconnect loop
MaxAttempts == 2
\* public calls made on the channel after construction
MaxCalls == 3
\* width of size_t, scaled down (TLC integers are 32 bits wide); the sign of
\* a converted -1 does not depend on the width
SizeBits == 8

\* ------------------------------------------------------------ data types
Fds == 0..MaxFd

RECURSIVE Pow2(_)
Pow2(n) == IF n = 0 THEN 1 ELSE 2 * Pow2(n - 1)

\* (size_t)(-1)
SIZE_MAX == Pow2(SizeBits) - 1

\* conversion of an int / ssize_t value to the size_t return type
ToSizeT(x) == x % Pow2(SizeBits)

\* speed field of a zeroed termios (memset 0)
B0 == "B0"

st_baud == << "B4800", "B9600", "B19200", "B38400",
              "B57600", "B115200", "B230400", "B921600" >>

std_rate == << 4800, 9600, 19200, 38400, 57600, 115200,
               230400, 921600, 1000000, 1152000, 3000000 >>

\* values the constructor is given as baudrate: a rate of both tables, a rate
\* of std_rate alone, and a rate of neither
BaudRates == {115200, 1000000, 999999}

\* what a read past the end of st_baud may yield: some speed constant or an
\* int that is no speed constant
OutOfBoundsValues == {"B4800", "B921600", "invalid"}

\* content of new_termios_ before ConfigDevice has ever zeroed it (the member
\* has no initializer and nothing reads it before the memset)
Indeterminate == "indeterminate"

\* buf argument of Read
Bufs == {"null", "buf"}

\* ------------------------------------------------------------- the state
VARIABLES
    serial_fd_,     \* Serial::serial_fd_
    owned,          \* descriptors opened by OpenDevice and not yet closed
    foreign,        \* other open descriptors of the process
    new_termios_,   \* [ispeed, ospeed] of Serial::new_termios_
    baudrate_,      \* Serial::baudrate_
    pc,             \* position of the caller: "idle", or inside Read
    attempts,       \* Init attempts made by the Read call in progress
    sys,            \* system calls issued by the current / last public call
    last,           \* the current / last public call and its result
    hist,           \* public calls made since construction
    dev,            \* what is assumed of the device: "any" (nothing), "flaky"
                    \* (nothing yet), or "back" (from now on present, accepting
                    \* the settings and delivering bytes)
    disc            \* a SerialInfo::ListPort() call and its result

vars == << serial_fd_, owned, foreign, new_termios_, baudrate_,
           pc, attempts, sys, last, hist, dev, disc >>

\* the variables of the Serial object and its caller
chanVars == << serial_fd_, owned, foreign, new_termios_, baudrate_,
               pc, attempts, sys, last, hist, dev >>

\* the fields of the object and the descriptor table, as one value
Chan == [fd |-> serial_fd_, owned |-> owned, foreign |-> foreign,
         tio |-> new_termios_]

OsOpen(s) == s.owned \cup s.foreign

\* lowest descriptor number not in use (what open returns), -1 if none
LowestFree(s) ==
    IF Fds \ OsOpen(s) = {} THEN -1
    ELSE CHOOSE f \in Fds \ OsOpen(s) : \A g \in Fds \ OsOpen(s) : f <= g

\* ------------------------------------------------------- private methods
\* bool OpenDevice(): serial_fd_ = open(...); return serial_fd_ >= 0
OpenDevice(s, open_ok) ==
    LET nfd == IF open_ok THEN LowestFree(s) ELSE -1
    IN  [s  |-> [s EXCEPT !.fd = nfd,
                          !.owned = IF nfd >= 0 THEN @ \cup {nfd} ELSE @],
         ok |-> ~(nfd < 0),
         calls |-> << "open" >>]

CloseDevice_keepopen(s) == [s EXCEPT !.fd = -1]

CloseDevice_noreset(s) ==
    [s EXCEPT !.owned = @ \ {s.fd}, !.foreign = @ \ {s.fd}]

\* bool CloseDevice(): close(serial_fd_); serial_fd_ = -1
CloseDevice(s) ==
    [s EXCEPT !.owned = @ \ {s.fd}, !.foreign = @ \ {s.fd}, !.fd = -1]

\* the scan "for (i = 0; i < j; ++i) if (std_rate[i] == baudrate_)":
\* 1-based index of the first match from position i on, 0 when none
RECURSIVE BaudScan(_, _)
BaudScan(i, baud) ==
    IF i > Len(std_rate) THEN 0
    ELSE IF std_rate[i] = baud THEN i
    ELSE BaudScan(i + 1, baud)

\* the value read as st_baud[i]; g is what a read past the end yields
StBaudAt(i, g) == IF i <= Len(st_baud) THEN st_baud[i] ELSE g

\* cfsetispeed / cfsetospeed: a value that is no speed constant is refused
CfSetSpeed(cur, v) ==
    IF \E k \in 1..Len(st_baud) : st_baud[k] = v THEN v ELSE cur

\* bool ConfigDevice()
ConfigDevice(s, baud, get_ok, set_ok, g) ==
    IF ~get_ok
    THEN [s |-> s, ok |-> FALSE, calls |-> << "tcgetattr" >>]
    ELSE LET i   == BaudScan(1, baud)
             spd == IF i = 0 THEN B0 ELSE CfSetSpeed(B0, StBaudAt(i, g))
         IN  [s  |-> [s EXCEPT !.tio = [ispeed |-> spd, ospeed |-> spd]],
              ok |-> set_ok,
              calls |-> << "tcgetattr", "tcflush", "tcsetattr" >>]

\* ---------------------------------------------------------------- Init()
InitBody_noclose(s, baud, open_ok, get_ok, set_ok, g) ==
    LET o == OpenDevice(s, open_ok)
    IN  IF ~o.ok
        THEN [s |-> CloseDevice(o.s), ok |-> FALSE, newfd |-> -1,
              get_ok |-> FALSE, set_ok |-> FALSE,
              calls |-> o.calls \o << "close" >>]
        ELSE LET c == ConfigDevice(o.s, baud, get_ok, set_ok, g)
             IN  [s |-> c.s, ok |-> c.ok, newfd |-> o.s.fd,
                  get_ok |-> get_ok, set_ok |-> c.ok,
                  calls |-> o.calls \o c.calls]

\* bool Init(): OpenDevice() && ConfigDevice(), else CloseDevice().
\* The test port_name_.c_str() == nullptr never succeeds (c_str() of a
\* std::string is never null) and has no branch here; FD_ZERO / FD_SET fill
\* serial_fd_set_, which nothing reads.
InitBody(s, baud, open_ok, get_ok, set_ok, g) ==
    LET o == OpenDevice(s, open_ok)
    IN  IF ~o.ok
        THEN [s |-> CloseDevice(o.s), ok |-> FALSE, newfd |-> -1,
              get_ok |-> FALSE, set_ok |-> FALSE,
              calls |-> o.calls \o << "close" >>]
        ELSE LET c == ConfigDevice(o.s, baud, get_ok, set_ok, g)
             IN  IF c.ok
                 THEN [s |-> c.s, ok |-> TRUE, newfd |-> o.s.fd,
                       get_ok |-> TRUE, set_ok |-> TRUE,
                       calls |-> o.calls \o c.calls]
                 ELSE [s |-> CloseDevice(c.s), ok |-> FALSE,
                       newfd |-> o.s.fd,
                       get_ok |-> get_ok, set_ok |-> FALSE,
                       calls |-> o.calls \o c.calls \o << "close" >>]

\* ------------------------------------------------- Read / Write helpers
NullBuf_unchecked(buf) == FALSE

\* "if (nullptr == buf)"
NullBuf(buf) == buf = "null"

KeepReconnecting_once(ret) == FALSE

KeepReconnecting_signed(ret) == ret = 0 \/ ret = SIZE_MAX

\* "while (ret == 0)", ret being a size_t
KeepReconnecting(ret) == ret = 0

\* what read(serial_fd_, buf, len) / write(serial_fd_, buf, len) may return:
\* -1 on a descriptor that is not open (EBADF), else whatever the device does
IoResults(s, len) == IF s.fd \in OsOpen(s) THEN {-1} \cup (0..len) ELSE {-1}

\* the same under the assumption made of the device: once back, it delivers
\* at least one byte to a read on an open descriptor
ReadResults(s, len) ==
    IF dev = "back" /\ s.fd \in OsOpen(s) THEN 1..len ELSE IoResults(s, len)

\* the answers open / tcgetattr / tcsetattr may get from the device
DeviceAnswers == IF dev = "back" THEN {TRUE} ELSE BOOLEAN

\* no discovery call in progress
NoDiscovery ==
    [pc |-> "off", dir |-> << >>, names |-> << >>, idx |-> 0,
     recs |-> << >>, obs |-> << >>,
     out |-> [k |-> 0, text |-> << >>, os |-> "os"]]

\* --------------------------------------------------- record of a call
\* op: the public call; ok: Init's bool result; ret: the size_t result of
\* Read / Write; raw: result of the latest underlying read / write;
\* open_ok, get_ok, set_ok: whether open / tcgetattr / tcsetattr of the latest
\* Init were reached and succeeded; inits: Init calls made by this call;
\* newfd: what that Init's open returned; pre: the channel before the call
NoCall ==
    [op |-> "none", ok |-> FALSE, ret |-> 0, buf |-> "buf", len |-> 0,
     raw |-> 0, inits |-> 0, open_ok |-> FALSE, get_ok |-> FALSE,
     set_ok |-> FALSE, newfd |-> -1,
     pre |-> [fd |-> -1, owned |-> {}, foreign |-> {}]]

Pre(s) == [fd |-> s.fd, owned |-> s.owned, foreign |-> s.foreign]

\* state after construction: serial_fd_ and new_termios_ have no initializer
Init ==
    /\ serial_fd_ \in (-1..MaxFd)
    /\ owned = {}
    /\ foreign = {0}
    /\ new_termios_ = [ispeed |-> Indeterminate, ospeed |-> Indeterminate]
    /\ baudrate_ \in BaudRates
    /\ pc = "idle"
    /\ attempts = 0
    /\ sys = << >>
    /\ last = NoCall
    /\ hist = << >>
    /\ dev = "any"
    /\ disc = NoDiscovery

Store(s) ==
    /\ serial_fd_' = s.fd
    /\ owned' = s.owned
    /\ foreign' = s.foreign
    /\ new_termios_' = s.tio

CanCall == pc = "idle" /\ Len(hist) < MaxCalls

\* open succeeds only if the device says so and a descriptor is free
OpenOk(s, dev_ok) == dev_ok /\ LowestFree(s) >= 0

\* a caller's Init()
InitCall ==
    /\ CanCall
    /\ \E dev_ok, get_ok, set_ok \in DeviceAnswers, g \in OutOfBoundsValues :
         LET r == InitBody(Chan, baudrate_, OpenOk(Chan, dev_ok),
                           get_ok, set_ok, g)
         IN  /\ Store(r.s)
             /\ sys' = r.calls
             /\ last' = [NoCall EXCEPT !.op = "Init", !.ok = r.ok,
                            !.open_ok = OpenOk(Chan, dev_ok),
                            !.get_ok = r.get_ok, !.set_ok = r.set_ok,
                            !.inits = 1, !.newfd = r.newfd, !.pre = Pre(Chan)]
    /\ hist' = Append(hist, "Init")
    /\ UNCHANGED << baudrate_, pc, attempts, dev, disc >>

\* ~Serial(): CloseDevice()
Teardown ==
    /\ CanCall
    /\ Store(CloseDevice(Chan))
    /\ sys' = << "close" >>
    /\ last' = [NoCall EXCEPT !.op = "Teardown", !.pre = Pre(Chan)]
    /\ hist' = Append(hist, "Teardown")
    /\ UNCHANGED << baudrate_, pc, attempts, dev, disc >>

\* Read(buf, len) up to its return or its entry into the reconnect loop
ReadCall ==
    /\ CanCall
    /\ \E buf \in Bufs, len \in 1..MaxLen :
         IF NullBuf(buf)
         THEN /\ sys' = << >>
              /\ pc' = "idle"
              /\ last' = [NoCall EXCEPT !.op = "Read", !.buf = buf,
                             !.len = len, !.ret = ToSizeT(-1), !.raw = -1,
                             !.pre = Pre(Chan)]
         ELSE \E r \in ReadResults(Chan, len) :
              /\ sys' = << "read" >>
              /\ pc' = IF KeepReconnecting(ToSizeT(r)) THEN "reconnect"
                        ELSE "idle"
              /\ last' = [NoCall EXCEPT !.op = "Read", !.buf = buf,
                             !.len = len, !.ret = ToSizeT(r), !.raw = r,
                             !.pre = Pre(Chan)]
    /\ attempts' = 0
    /\ hist' = Append(hist, "Read")
    /\ UNCHANGED << serial_fd_, owned, foreign, new_termios_, baudrate_,
                    dev, disc >>

ReadReconnect_nopause ==
    /\ pc = "reconnect"
    /\ attempts < MaxAttempts \/ dev # "any"
    /\ \E dev_ok, get_ok, set_ok \in DeviceAnswers, g \in OutOfBoundsValues :
         LET r == InitBody(Chan, baudrate_, OpenOk(Chan, dev_ok),
                           get_ok, set_ok, g)
         IN  /\ Store(r.s)
             /\ sys' = IF attempts < MaxAttempts THEN sys \o r.calls ELSE sys
             /\ pc' = IF r.ok THEN "reread" ELSE "reconnect"
             /\ last' = [last EXCEPT !.ok = r.ok,
                            !.open_ok = OpenOk(Chan, dev_ok),
                            !.get_ok = r.get_ok, !.set_ok = r.set_ok,
                            !.inits = IF attempts < MaxAttempts THEN @ + 1
                                      ELSE @,
                            !.newfd = r.newfd]
    /\ attempts' = IF attempts < MaxAttempts THEN attempts + 1
                   ELSE MaxAttempts + 1
    /\ UNCHANGED << baudrate_, hist, dev, disc >>

\* the log of system calls is kept for the first MaxAttempts turns of the
\* reconnect loop; a run without that cap goes on unlogged
Logged == attempts <= MaxAttempts

\* "!Init()" of "while (!Init()) usleep(500000);": one attempt
ReadReconnect ==
    /\ pc = "reconnect"
    /\ attempts < MaxAttempts \/ dev # "any"
    /\ \E dev_ok, get_ok, set_ok \in DeviceAnswers, g \in OutOfBoundsValues :
         LET r == InitBody(Chan, baudrate_, OpenOk(Chan, dev_ok),
                           get_ok, set_ok, g)
         IN  /\ Store(r.s)
             /\ sys' = IF attempts < MaxAttempts THEN sys \o r.calls ELSE sys
             /\ pc' = IF r.ok THEN "reread" ELSE "sleep"
             /\ last' = [last EXCEPT !.ok = r.ok,
                            !.open_ok = OpenOk(Chan, dev_ok),
                            !.get_ok = r.get_ok, !.set_ok = r.set_ok,
                            !.inits = IF attempts < MaxAttempts THEN @ + 1
                                      ELSE @,
                            !.newfd = r.newfd]
    /\ attempts' = IF attempts < MaxAttempts THEN attempts + 1
                   ELSE MaxAttempts + 1
    /\ UNCHANGED << baudrate_, hist, dev, disc >>

\* "usleep(500000);" after a failed attempt
ReadSleep ==
    /\ pc = "sleep"
    /\ sys' = IF Logged THEN Append(sys, "usleep") ELSE sys
    /\ pc' = "reconnect"
    /\ UNCHANGED << serial_fd_, owned, foreign, new_termios_, baudrate_,
                    attempts, last, hist, dev, disc >>

\* "ret = read(serial_fd_, buf, len);" inside the loop, and the loop test
ReadRetry ==
    /\ pc = "reread"
    /\ \E r \in ReadResults(Chan, last.len) :
         /\ sys' = IF Logged THEN Append(sys, "read") ELSE sys
         /\ pc' = IF KeepReconnecting(ToSizeT(r)) THEN "reconnect" ELSE "idle"
         /\ last' = [last EXCEPT !.ret = ToSizeT(r), !.raw = r]
    /\ UNCHANGED << serial_fd_, owned, foreign, new_termios_, baudrate_,
                    attempts, hist, dev, disc >>

WriteCall_retry ==
    /\ CanCall
    /\ \E len \in 1..MaxLen : \E r \in IoResults(Chan, len) :
         /\ sys' = IF r < len THEN << "write", "write" >> ELSE << "write" >>
         /\ last' = [NoCall EXCEPT !.op = "Write", !.len = len,
                        !.ret = ToSizeT(r), !.raw = r, !.pre = Pre(Chan)]
    /\ hist' = Append(hist, "Write")
    /\ UNCHANGED << serial_fd_, owned, foreign, new_termios_, baudrate_,
                    pc, attempts, dev, disc >>

\* Write(buf, len): return write(serial_fd_, buf, len)
WriteCall ==
    /\ CanCall
    /\ \E len \in 1..MaxLen : \E r \in IoResults(Chan, len) :
         /\ sys' = << "write" >>
         /\ last' = [NoCall EXCEPT !.op = "Write", !.len = len,
                        !.ret = ToSizeT(r), !.raw = r, !.pre = Pre(Chan)]
    /\ hist' = Append(hist, "Write")
    /\ UNCHANGED << serial_fd_, owned, foreign, new_termios_, baudrate_,
                    pc, attempts, dev, disc >>

Next ==
    \/ InitCall
    \/ Teardown
    \/ ReadCall
    \/ ReadReconnect
    \/ ReadSleep
    \/ ReadRetry
    \/ WriteCall

Spec == Init /\ [][Next]_vars

\* ------------------------------------------- the device that comes back
\* the channel with its descriptor field at -1 and a device that may come and
\* go, answer reads with zero bytes or refuse the settings, until it is back
LiveInit ==
    /\ serial_fd_ = -1
    /\ owned = {}
    /\ foreign = {0}
    /\ new_termios_ = [ispeed |-> Indeterminate, ospeed |-> Indeterminate]
    /\ baudrate_ \in BaudRates
    /\ pc = "idle"
    /\ attempts = 0
    /\ sys = << >>
    /\ last = NoCall
    /\ hist = << >>
    /\ dev = "flaky"
    /\ disc = NoDiscovery

\* from here on the device is present, accepts the settings, delivers bytes
DeviceReturns ==
    /\ dev = "flaky"
    /\ dev' = "back"
    /\ UNCHANGED << serial_fd_, owned, foreign, new_termios_, baudrate_,
                    pc, attempts, sys, last, hist, disc >>

LiveNext == Next \/ DeviceReturns

\* Read is sequential code: once inside its loop it takes its next step; the
\* device coming back is the assumption under which Read is said to return
SpecLive ==
    /\ LiveInit
    /\ [][LiveNext]_vars
    /\ WF_vars(ReadReconnect) /\ WF_vars(ReadSleep) /\ WF_vars(ReadRetry)
    /\ WF_vars(DeviceReturns)

\* ------------------------------------------------ SerialInfo::ListPort()
\* strings are sequences of characters, indexed from 0 in the code
NPOS == SIZE_MAX

Min(a, b) == IF a < b THEN a ELSE b

\* s.rfind(c, pos): the last index <= pos holding c, npos when there is none
RFind(s, c, pos) ==
    LET I == {i \in 0..(Len(s) - 1) : i <= pos /\ s[i + 1] = c}
    IN  IF I = {} THEN NPOS ELSE CHOOSE i \in I : \A j \in I : j <= i

\* s.substr(pos, n), for pos <= s.size()
Substr(s, pos, n) == SubSeq(s, pos + 1, pos + Min(n, Len(s) - pos))

\* s.compare(0, Len(p), p) == 0
StartsWith(s, p) == Len(s) >= Len(p) /\ SubSeq(s, 1, Len(p)) = p

DevDir == << "/", "d", "e", "v", "/" >>
TtyACM == << "t", "t", "y", "A", "C", "M" >>
TtyUSB == << "t", "t", "y", "U", "S", "B" >>

patterns_wide ==
    << DevDir \o << "t", "t", "y", "*" >>,
       DevDir \o << "c", "u", ".", "*" >>,
       DevDir \o << "r", "f", "c", "o", "m", "m", "*" >> >>

\* the patterns of glob_device
patterns ==
    << DevDir \o TtyACM \o << "*" >>,
       DevDir \o << "t", "t", "y", "S", "*" >>,
       DevDir \o TtyUSB \o << "*" >>,
       DevDir \o << "t", "t", "y", ".", "*" >>,
       DevDir \o << "c", "u", ".", "*" >>,
       DevDir \o << "r", "f", "c", "o", "m", "m", "*" >> >>

\* glob(3) for a pattern "<literal>*": the literal, then anything without "/"
GlobMatch(pat, path) ==
    LET lit == SubSeq(pat, 1, Len(pat) - 1)
    IN  /\ StartsWith(path, lit)
        /\ \A k \in (Len(lit) + 1)..Len(path) : path[k] # "/"

\* gl_pathv after glob(patterns[0]) and glob(patterns[k], GLOB_APPEND): the
\* matches of each pattern in turn, over the paths of the directory
RECURSIVE GlobAll(_, _)
GlobAll(k, paths) ==
    IF k > Len(patterns) THEN << >>
    ELSE SelectSeq(paths, LAMBDA q : GlobMatch(patterns[k], q))
         \o GlobAll(k + 1, paths)

\* path_found.substr(path_found.rfind('/') + 1, npos)
Basename(path) == Substr(path, ToSizeT(RFind(path, "/", NPOS) + 1), NPOS)

\* glob_device(): the names of the entries of /dev matching a pattern
GlobDevice(dir) ==
    LET paths == [k \in 1..Len(dir) |-> DevDir \o dir[k]]
        found == GlobAll(1, paths)
    IN  [k \in 1..Len(found) |-> Basename(found[k])]

GetSysDevicePath_nostat(device_name, real, stat_ok) ==
    IF StartsWith(device_name, TtyUSB)
    THEN Substr(real, 0, RFind(real, "/",
                               ToSizeT(RFind(real, "/", NPOS) - 1)))
    ELSE IF StartsWith(device_name, TtyACM)
    THEN Substr(real, 0, RFind(real, "/", NPOS))
    ELSE << >>

\* get_sys_device_path(device_name); real is what realpath of
\* /sys/class/tty/<name>/device gave (empty for nullptr), stat_ok the answer
\* of stat to the path path_exists is asked about
GetSysDevicePath(device_name, real, stat_ok) ==
    LET sys_device_path ==
            IF StartsWith(device_name, TtyUSB)
            THEN Substr(real, 0, RFind(real, "/",
                                       ToSizeT(RFind(real, "/", NPOS) - 1)))
            ELSE IF StartsWith(device_name, TtyACM)
            THEN Substr(real, 0, RFind(real, "/", NPOS))
            ELSE << >>
    IN  IF sys_device_path # << >> /\ stat_ok THEN sys_device_path ELSE << >>

HexChars == << "0", "1", "2", "3", "4", "5", "6", "7", "8", "9",
               "a", "b", "c", "d", "e", "f" >>

IsHex(c) == \E k \in 1..Len(HexChars) : HexChars[k] = c

HexVal(c) == (CHOOSE k \in 1..Len(HexChars) : HexChars[k] = c) - 1

\* value of the hexadecimal digits s[1..n]
RECURSIVE HexValue(_, _)
HexValue(s, n) ==
    IF n = 0 THEN 0 ELSE 16 * HexValue(s, n - 1) + HexVal(s[n])

\* length of the longest prefix of s made of hexadecimal digits
RECURSIVE HexPrefix(_, _)
HexPrefix(s, k) ==
    IF k > Len(s) \/ ~IsHex(s[k]) THEN k - 1 ELSE HexPrefix(s, k + 1)

\* stoul(str, nullptr, 16): std::invalid_argument when no digit can be read
Stoul16(s) ==
    LET n == HexPrefix(s, 1)
    IN  IF n = 0 THEN [thrown |-> TRUE, val |-> 0]
        ELSE [thrown |-> FALSE, val |-> HexValue(s, n)]

\* conversion to unsigned short
ToUShort(v) == v % 65536

\* a SerialInfo as default-constructed, port_name set
NewInfo(name) ==
    [port_name |-> name, product_id |-> 0, vendor_id |-> 0,
     product |-> << >>, manufacturer |-> << >>, serial_number |-> << >>]

\* digits of v in base 16, lowercase, no leading zero (std::hex)
RECURSIVE HexDigits(_)
HexDigits(v) ==
    IF v < 16 THEN << HexChars[v + 1] >>
    ELSE Append(HexDigits(v \div 16), HexChars[(v % 16) + 1])

\* std::setfill('0') << std::setw(w) << std::right: padding, no truncation
RECURSIVE PadLeft(_, _)
PadLeft(s, w) == IF Len(s) >= w THEN s ELSE PadLeft(<< "0" >> \o s, w)

Sep == << ",", " " >>

\* what operator<< writes to the stream
Rendering(info) ==
    info.port_name \o Sep
      \o PadLeft(HexDigits(info.product_id), 4) \o << ":" >>
      \o PadLeft(HexDigits(info.vendor_id), 4) \o Sep
      \o info.manufacturer \o Sep
      \o info.product \o Sep
      \o info.serial_number

\* -------------------------------------------- the file system, as inputs
NameACM0 == TtyACM \o << "0" >>
NameUSB0 == TtyUSB \o << "0" >>
NameS0 == << "t", "t", "y", "S", "0" >>
NameTty0 == << "t", "t", "y", "0" >>
NameSda == << "s", "d", "a" >>
NameCuB == << "c", "u", ".", "b" >>
NameTtyDotB == << "t", "t", "y", ".", "b" >>
NameRfcomm0 == << "r", "f", "c", "o", "m", "m", "0" >>

\* listings of /dev, in the order glob meets the entries
Dirs ==
    { << >>,
      << NameSda, NameTty0 >>,
      << NameACM0 >>,
      << NameSda, NameUSB0 >>,
      << NameACM0, NameS0, NameUSB0 >>,
      << NameCuB, NameRfcomm0, NameTtyDotB >> }

\* results of realpath: nullptr (empty), a tty below an interface below a USB
\* device, and a path with a single component
RealPaths ==
    { << >>,
      << "/", "s", "/", "u", "/", "i", "/", "t" >>,
      << "/", "x" >> }

\* first line of idProduct / idVendor (empty: file absent or empty)
IdProducts == { << >>, << "1", "a", "2", "b" >>, << "0", "0", "1", "0" >> }
IdVendors == { << >>, << "0", "0", "0", "3" >>, << "2", "3", "4", "1" >> }

\* first line of product, manufacturer, serial
Products == { << >>, << "U" >> }
Manufacturers == { << >>, << "A", "r" >> }
Serials == { << >>, << "7" >> }

\* what was read from the file system for one entry
Seen(name, real, stat_ok, sub, idp, idv) ==
    [name |-> name, real |-> real, stat_ok |-> stat_ok, sub |-> sub,
     idp |-> idp, idv |-> idv]

\* ------------------------------------------------------ the enumeration
ListInit ==
    /\ serial_fd_ = -1
    /\ owned = {}
    /\ foreign = {0}
    /\ new_termios_ = [ispeed |-> Indeterminate, ospeed |-> Indeterminate]
    /\ baudrate_ = 115200
    /\ pc = "idle"
    /\ attempts = 0
    /\ sys = << >>
    /\ last = NoCall
    /\ hist = << >>
    /\ dev = "any"
    /\ \E dir \in Dirs : disc = [NoDiscovery EXCEPT !.pc = "start", !.dir = dir]

\* std::vector<std::string> device_names(glob_device());
ListGlob ==
    /\ disc.pc = "start"
    /\ disc' = [disc EXCEPT !.pc = "scan", !.names = GlobDevice(disc.dir),
                            !.idx = 1]
    /\ UNCHANGED chanVars

\* one turn of the for loop of ListPort
ListEntry ==
    /\ disc.pc = "scan"
    /\ disc.idx <= Len(disc.names)
    /\ LET name == disc.names[disc.idx]
           Emit(info, seen) ==
               disc' = [disc EXCEPT !.recs = Append(@, info),
                                    !.obs = Append(@, seen),
                                    !.idx = @ + 1]
           Throw(seen) ==
               disc' = [disc EXCEPT !.pc = "thrown", !.recs = << >>,
                                    !.obs = Append(@, seen)]
       IN  \E real \in RealPaths :
           \E stat_ok \in (IF GetSysDevicePath(name, real, TRUE) = << >>
                           THEN {FALSE} ELSE BOOLEAN) :
             LET sub == GetSysDevicePath(name, real, stat_ok)
             IN  IF sub = << >>
                 THEN Emit(NewInfo(name),
                           Seen(name, real, stat_ok, sub, << >>, << >>))
                 ELSE \E idp \in IdProducts :
                      IF Stoul16(idp).thrown
                      THEN Throw(Seen(name, real, stat_ok, sub, idp, << >>))
                      ELSE \E idv \in IdVendors :
                           IF Stoul16(idv).thrown
                           THEN Throw(Seen(name, real, stat_ok, sub, idp, idv))
                           ELSE \E pr \in Products, ma \in Manufacturers,
                                   se \in Serials :
                                Emit([port_name |-> name,
                                      product_id |->
                                          ToUShort(Stoul16(idp).val),
                                      vendor_id |->
                                          ToUShort(Stoul16(idv).val),
                                      product |-> pr, manufacturer |-> ma,
                                      serial_number |-> se],
                                     Seen(name, real, stat_ok, sub, idp, idv))
    /\ UNCHANGED chanVars

\* return serial_info_list;
ListReturn ==
    /\ disc.pc = "scan"
    /\ disc.idx > Len(disc.names)
    /\ disc' = [disc EXCEPT !.pc = "returned"]
    /\ UNCHANGED chanVars

\* os << port for one record of the list; operator<< has no return statement,
\* so the reference it yields is indeterminate
Render ==
    /\ disc.pc = "returned"
    /\ disc.out.k = 0
    /\ \E k \in 1..Len(disc.recs), os \in {"os", "indeterminate"} :
         disc' = [disc EXCEPT !.out = [k |-> k,
                                       text |-> Rendering(disc.recs[k]),
                                       os |-> os]]
    /\ UNCHANGED chanVars

ListNext == ListGlob \/ ListEntry \/ ListReturn \/ Render

SpecList == ListInit /\ [][ListNext]_vars

\* ------------------------------------------------------------ vocabulary
\* number of occurrences of x in the sequence q
Count(q, x) == Cardinality({k \in 1..Len(q) : q[k] = x})

\* the public call has returned to its caller
Returned(op) == pc = "idle" /\ last.op = op

\* an Init (a caller's, or one made by Read's loop) has just run to its end
\* and last.open_ok, last.get_ok, last.set_ok, last.ok, last.newfd describe it
AfterInit == last.inits > 0

\* handle_state of the spec: Closed is the descriptor field holding -1
Closed == serial_fd_ = -1

\* the channel's descriptor names a handle it opened and has not released
Open == serial_fd_ \in owned

\* the channel was Open when the last call began
WasOpen == last.pre.fd \in last.pre.owned

\* --------------------------------------------------------------- claims

\* C1: the channel holds at most one open OS handle at any time, and once
\* teardown has run every handle it opened has been released.
C1_AtMostOneHandle ==
    /\ Cardinality(owned) <= 1
    /\ Returned("Teardown") => owned = {}

\* C2: an Init whose open step fails returns failure and leaves the channel
\* Closed: serial_fd_ = -1 and no handle of the channel open.
C2_OpenFailureLeavesClosed ==
    (AfterInit /\ ~last.open_ok) =>
        (~last.ok /\ serial_fd_ = -1 /\ owned = {})

\* C3: when Init's open step succeeds and its configure step fails (tcgetattr
\* or tcsetattr), Init returns failure, the handle it just opened has been
\* released, and the channel is Closed.
C3_ConfigFailureReleases ==
    (AfterInit /\ last.open_ok /\ ~(last.get_ok /\ last.set_ok)) =>
        (~last.ok /\ last.newfd \notin OsOpen(Chan) /\ Closed)

C3_Witness ==
    /\ Returned("Init") /\ last.open_ok /\ last.get_ok /\ ~last.set_ok
    /\ last.newfd >= 0 /\ ~last.ok /\ Closed

\* C4: Read never returns 0, and a returned value other than the failure
\* value (size_t)(-1) is the positive byte count of the last underlying read.
C4_ReadNeverReturnsZero ==
    Returned("Read") =>
        /\ last.ret # 0
        /\ last.ret # SIZE_MAX => (last.raw >= 1 /\ last.ret = last.raw)

\* a Read that met a zero-byte read again after a successful reconnect and
\* then returned bytes
C4_Witness ==
    /\ Returned("Read") /\ last.ret >= 1 /\ last.ret # SIZE_MAX
    /\ Count(sys, "read") = 3 /\ Count(sys, "usleep") = 0

\* C5: when an underlying read of Read (the first, or one after a reconnect)
\* returns a negative result, Read returns the failure value at once: that
\* read is the last system call it issued and no Init follows it.
C5_ReadErrorNotRetried ==
    (last.op = "Read" /\ ~NullBuf(last.buf) /\ last.raw < 0) =>
        /\ pc = "idle"
        /\ last.ret = SIZE_MAX
        /\ sys[Len(sys)] = "read"

C5_Witness ==
    /\ Returned("Read") /\ last.raw < 0 /\ last.inits >= 1
    /\ Count(sys, "read") = 2

\* C6: Read with a null buffer returns the failure value, issues no system
\* call, and leaves the descriptor field and the descriptor table as they were.
C6_NullBufferNoSyscall ==
    (last.op = "Read" /\ last.buf = "null") =>
        /\ pc = "idle"
        /\ last.ret = SIZE_MAX
        /\ sys = << >>
        /\ Pre(Chan) = last.pre

C6_Witness ==
    /\ Returned("Read") /\ last.buf = "null" /\ WasOpen /\ Open

\* C7: teardown releases a handle of the channel exactly when the channel was
\* Open, leaves the state Closed, and a teardown that directly follows a
\* teardown releases nothing.
C7_TeardownIdempotent ==
    Returned("Teardown") =>
        /\ (last.pre.owned # owned) <=> WasOpen
        /\ WasOpen => owned = last.pre.owned \ {last.pre.fd}
        /\ Closed
        /\ (Len(hist) >= 2 /\ hist[Len(hist) - 1] = "Teardown") =>
               (last.pre.fd = -1 /\ OsOpen(Chan) = OsOpen(last.pre))

C7_Witness ==
    /\ Returned("Teardown") /\ hist = << "Init", "Teardown", "Teardown" >>
    /\ Closed /\ owned = {}

\* C8: on a new channel, Init then teardown then Init, the device being
\* present and accepting the configuration at the second Init: the second
\* Init succeeds and the channel is Open and holds exactly one handle.
C8_ReopenAfterTeardown ==
    (hist = << "Init", "Teardown", "Init" >> /\ last.open_ok
       /\ last.get_ok /\ last.set_ok) =>
        (last.ok /\ Open /\ Cardinality(owned) = 1)

C8_Witness ==
    /\ hist = << "Init", "Teardown", "Init" >>
    /\ last.ok /\ Open /\ owned = {serial_fd_}

\* the supported table of the spec: rate and its rate constant
SupportedRates ==
    { << 4800, "B4800" >>, << 9600, "B9600" >>, << 19200, "B19200" >>,
      << 38400, "B38400" >>, << 57600, "B57600" >>, << 115200, "B115200" >>,
      << 230400, "B230400" >>, << 921600, "B921600" >> }

\* C9: an Init on a present device that accepts the settings succeeds, having
\* set input and output rate to the constant of the supported table entry
\* equal to baudrate_, or no rate when baudrate_ equals none of them.
C9_BaudFromSupportedTable ==
    (AfterInit /\ last.open_ok /\ last.get_ok /\ last.set_ok) =>
        /\ last.ok
        /\ \A e \in SupportedRates : e[1] = baudrate_ =>
               new_termios_ = [ispeed |-> e[2], ospeed |-> e[2]]
        /\ (\A e \in SupportedRates : e[1] # baudrate_) =>
               new_termios_ = [ispeed |-> B0, ospeed |-> B0]

\* C10: a failed underlying write makes Write return a negative value, and a
\* failed underlying read makes Read return -1.
C10_FailureIsNegative ==
    /\ (Returned("Write") /\ last.raw < 0) => last.ret < 0
    /\ (Returned("Read") /\ last.raw < 0) => last.ret = -1

\* a Read with a buffer is in progress or has returned
InRead == last.op = "Read" /\ ~NullBuf(last.buf)

\* C15 as stated: after the successful Init the read is retried once and
\* Read returns that read's result.
C15_RetryOnceThenReturn ==
    (InRead /\ Len(sys) > 1 /\ sys[Len(sys)] = "read") => pc = "idle"

\* C15 as amended: after a zero-byte read, Init is attempted again and again,
\* each failed attempt followed by a pause and by no read, until an Init
\* succeeds; the read is then issued once; its result is returned unless it
\* is zero, and a zero result starts the attempts again.
C15_ReconnectLoop ==
    InRead =>
        /\ sys[1] = "read"
        /\ \A k \in 1..Len(sys) :
             /\ sys[k] = "open" => (k > 1 /\ sys[k - 1] \in {"read", "usleep"})
             /\ sys[k] = "usleep" => (k > 1 /\ sys[k - 1] = "close")
             /\ sys[k] = "close" =>
                    IF k < Len(sys) THEN sys[k + 1] = "usleep" ELSE pc = "sleep"
             /\ (sys[k] = "read" /\ k > 1) => sys[k - 1] = "tcsetattr"
             /\ (sys[k] = "read" /\ k < Len(sys)) => sys[k + 1] = "open"
             /\ sys[k] = "tcsetattr" =>
                    IF k < Len(sys) THEN sys[k + 1] \in {"read", "close"}
                    ELSE pc = "reread"
        /\ sys[Len(sys)] = "usleep" => pc = "reconnect"
        /\ sys[Len(sys)] = "read" =>
               /\ last.raw = 0 => pc = "reconnect"
               /\ last.raw # 0 => (pc = "idle" /\ last.ret = ToSizeT(last.raw))
        /\ pc = "idle" => (sys[Len(sys)] = "read" /\ last.raw # 0)

\* a Read that paused after a failed attempt, reconnected, read once more
\* and returned the bytes of that read
C15_Witness ==
    /\ Returned("Read") /\ last.raw >= 1 /\ last.ret = last.raw
    /\ Count(sys, "usleep") = 1 /\ Count(sys, "read") = 2

\* C17: Write issues exactly one write and nothing else, returns that write's
\* result as a size_t, and leaves the descriptor field and the descriptor
\* table as they were, whatever the write returned.
C17_WriteOnce ==
    last.op = "Write" =>
        /\ pc = "idle"
        /\ sys = << "write" >>
        /\ last.ret = ToSizeT(last.raw)
        /\ last.raw >= 0 => last.ret = last.raw
        /\ Pre(Chan) = last.pre

\* a short write on an Open channel
C17_Witness ==
    /\ Returned("Write") /\ WasOpen /\ Open
    /\ last.raw >= 0 /\ last.raw < last.len

\* C18: a channel that was never initialized never closes, reads from or
\* writes to a descriptor it did not open: its descriptor field is the
\* invalid value -1.
C18_FreshChannelTouchesNothing ==
    /\ foreign = {0}
    /\ (last.op \in {"Read", "Write"} /\ ~NullBuf(last.buf)) =>
           last.pre.fd \notin last.pre.foreign

\* C19: on a channel whose descriptor field is -1, Read with a buffer and
\* Write each return the failure value after their one read / write, make no
\* Init, open nothing and leave the field at -1.
C19_ClosedChannelFails ==
    (last.op \in {"Read", "Write"} /\ ~NullBuf(last.buf) /\ last.pre.fd = -1) =>
        /\ pc = "idle"
        /\ last.ret = SIZE_MAX
        /\ sys = IF last.op = "Read" THEN << "read" >> ELSE << "write" >>
        /\ last.inits = 0
        /\ Closed
        /\ owned = last.pre.owned

C19_Witness ==
    /\ hist = << "Init", "Read" >> /\ Returned("Read") /\ ~NullBuf(last.buf)
    /\ last.pre.fd = -1 /\ last.ret = SIZE_MAX /\ Closed

\* C20: the index at which an Init that reaches the rate scan reads st_baud is
\* within st_baud (1..8 here, 0..7 in the code).
C20_StBaudIndexInBounds ==
    (AfterInit /\ last.get_ok) => BaudScan(1, baudrate_) <= Len(st_baud)

\* C16: after a zero-byte read, Read returns only after an Init attempt of
\* its loop has succeeded, and, the device eventually being back for good,
\* Read eventually returns.
C16_BlocksThenReturns ==
    /\ [](( Returned("Read") /\ last.inits > 0 ) => last.ok)
    /\ (pc # "idle") ~> (pc = "idle")

\* ------------------------------------------------- claims on ListPort()
\* the identity directory of entry o exists (get_sys_device_path gave a path)
HasSubtree(o) == o.sub # << >>

\* entry o has no identity directory, said from what the file system holds:
\* the link does not resolve, the name is of neither USB class, or the
\* directory the walk arrives at is not there
Absent(o) ==
    \/ o.real = << >>
    \/ ~(StartsWith(o.name, TtyUSB) \/ StartsWith(o.name, TtyACM))
    \/ ~o.stat_ok

RecognizedPrefixes ==
    { << "t", "t", "y", "A", "C", "M" >>, << "t", "t", "y", "S" >>,
      << "t", "t", "y", "U", "S", "B" >>, << "t", "t", "y", "." >>,
      << "c", "u", "." >>, << "r", "f", "c", "o", "m", "m" >> }

Entries(dir) == {dir[k] : k \in 1..Len(dir)}

\* C11: when the identity directory exists and idProduct or idVendor is
\* absent or empty, ListPort does not raise, the ID is zero and every record
\* is still returned.
C11_MissingIdIsZero ==
    /\ disc.pc # "thrown"
    /\ \A k \in 1..Len(disc.recs) :
         HasSubtree(disc.obs[k]) =>
           /\ disc.obs[k].idp = << >> => disc.recs[k].product_id = 0
           /\ disc.obs[k].idv = << >> => disc.recs[k].vendor_id = 0
    /\ disc.pc = "returned" => Len(disc.recs) = Len(disc.names)

\* C12: a matched entry without identity directory gets the record with zero
\* IDs and empty product, manufacturer and serial number, and it is never
\* that entry at which ListPort raises.
C12_AbsentSubtreeGivesDefaults ==
    /\ \A k \in 1..Len(disc.recs) :
         Absent(disc.obs[k]) =>
           /\ disc.recs[k].port_name = disc.obs[k].name
           /\ disc.recs[k].product_id = 0
           /\ disc.recs[k].vendor_id = 0
           /\ disc.recs[k].product = << >>
           /\ disc.recs[k].manufacturer = << >>
           /\ disc.recs[k].serial_number = << >>
    /\ disc.pc = "thrown" => ~Absent(disc.obs[Len(disc.obs)])
    /\ ( disc.pc = "returned" /\ \A k \in 1..Len(disc.obs) : Absent(disc.obs[k]) )
         => Len(disc.recs) = Len(disc.names)

\* ListPort returned with a ttyUSB entry whose link did not resolve, one whose
\* name is of no USB class, and one whose directory is not there
C12_Witness ==
    /\ disc.pc = "returned"
    /\ \E k \in 1..Len(disc.recs) :
         /\ StartsWith(disc.obs[k].name, TtyUSB)
         /\ disc.obs[k].real = << >>
    /\ \E k \in 1..Len(disc.recs) : disc.obs[k].name = NameS0
    /\ \E k \in 1..Len(disc.recs) :
         /\ StartsWith(disc.obs[k].name, TtyACM)
         /\ disc.obs[k].real # << >>
         /\ GetSysDevicePath_nostat(disc.obs[k].name, disc.obs[k].real, TRUE)
              # << >>
         /\ ~disc.obs[k].stat_ok

\* C13: every record names an entry of the directory that starts with a
\* recognized prefix; an entry starting with none is in no record.
C13_OnlyRecognizedPrefixes ==
    /\ \A k \in 1..Len(disc.names) :
         /\ disc.names[k] \in Entries(disc.dir)
         /\ \E p \in RecognizedPrefixes : StartsWith(disc.names[k], p)
    /\ \A k \in 1..Len(disc.recs) : disc.recs[k].port_name = disc.names[k]
    /\ disc.pc = "returned" =>
         \A e \in Entries(disc.dir) :
           (\E k \in 1..Len(disc.recs) : disc.recs[k].port_name = e)
             <=> (\E p \in RecognizedPrefixes : StartsWith(e, p))

\* ListPort returned one record for a directory holding sda and ttyUSB0
C13_Witness ==
    /\ disc.pc = "returned"
    /\ disc.dir = << NameSda, NameUSB0 >>
    /\ Len(disc.recs) = 1
    /\ disc.recs[1].port_name = NameUSB0

\* the four hexadecimal digits of a 16-bit value
Hex4(v) ==
    << HexChars[((v \div 4096) % 16) + 1], HexChars[((v \div 256) % 16) + 1],
       HexChars[((v \div 16) % 16) + 1], HexChars[(v % 16) + 1] >>

\* C14: the rendering of a returned record is
\* "<path>, <productID>:<vendorID>, <manufacturer>, <product>, <serial>",
\* the path fully qualified (/dev/ttyACM0), each ID four lowercase
\* hexadecimal digits, and the stream comes back for the next insertion.
C14_RenderingLine ==
    disc.out.k > 0 =>
      LET r == disc.recs[disc.out.k]
      IN  /\ disc.out.text =
                DevDir \o r.port_name \o << ",", " " >>
                  \o Hex4(r.product_id) \o << ":" >> \o Hex4(r.vendor_id)
                  \o << ",", " " >> \o r.manufacturer
                  \o << ",", " " >> \o r.product
                  \o << ",", " " >> \o r.serial_number
          /\ disc.out.os = "os"

====
